---- MODULE Spec2Model ----
(***************************************************************************)
(* Model of pylib: the regression training/inference adapter               *)
(* (ml/pytorch_sample.py) and the decomposition adapter                    *)
(* (linalg/decomposition.py).                                              *)
(*                                                                         *)
(* Spec        the regression adapter as a state machine over the          *)
(*             process-wide model handle; one action per public function.  *)
(* SpecDevice  Spec in an environment whose accelerator detection may      *)
(*             change while the process runs.                              *)
(* SpecConc    one thread in train_regression_sample and one in            *)
(*             predict_dict, interleaved statement by statement.           *)
(* SpecLinalg  the decomposition functions applied to matrices drawn from  *)
(*             a bounded set.                                              *)
(*                                                                         *)
(* Abstractions.  The numerical content of a parameter tensor is not       *)
(* modelled: the parameters of a model are the symbolic value              *)
(* <<instance id, number of optimizer steps applied>>, a network output    *)
(* is the symbolic application of such parameters to one input row, and a  *)
(* loss is the symbolic value of the parameters it was computed on.        *)
(***************************************************************************)
EXTENDS Integers, Sequences, FiniteSets, TLC

VARIABLES
    _model,          \* pytorch_sample._model : None or the model object
    _device,         \* pytorch_sample._device, fixed when the module is loaded
    cuda_available,  \* what torch.cuda.is_available() answers
    nextId,          \* identity the next RegressionModel() object gets
    ret,             \* the last call of the regression adapter and its outcome
    trainedOk,       \* history: some train_regression_sample call has returned
    firstPred,       \* history: first successful predict_dict since the handle was last assigned
    matrix,          \* the matrix handed to the decomposition functions
    lib,             \* the factorization numpy.linalg.svd computes for matrix
    res,             \* the last decomposition call and its outcome
    threads          \* two threads calling the regression adapter: their frames,
                     \* and the model objects no longer held by the handle

vars == <<_model, _device, cuda_available, nextId, ret, trainedOk, firstPred,
          matrix, lib, res, threads>>

mlVars == <<_model, _device, cuda_available, nextId, ret, trainedOk, firstPred,
            threads>>
laVars == <<matrix, lib, res>>

----------------------------------------------------------------------------
(* Bounds *)

MaxEpochs == 2
MaxInstances == 2
MaxBatch == 2
MaxDim == 2
MaxSV == 2

\* Feature rows the calls are tried on: two well-formed rows of INPUT_SIZE
\* numbers (those of the tests) and one row that is too short.
SampleRows == {<<1, 0>>, <<0, 1>>}
ShortRows == {<<1>>}

----------------------------------------------------------------------------
(* Program constants *)

INPUT_SIZE == 2
OUTPUT_SIZE == 1

----------------------------------------------------------------------------
(* Python values *)

None == [type |-> "NoneType"]

Return(v) == [status |-> "return", value |-> v]
Raise(exc, msg) == [status |-> "raise", exc |-> exc, msg |-> msg]

NotTrainedMsg == "call train_regression_sample() first"

\* str(bool)
Str(b) == IF b THEN "True" ELSE "False"

Min(a, b) == IF a < b THEN a ELSE b
Max(a, b) == IF a > b THEN a ELSE b

----------------------------------------------------------------------------
(* ml/pytorch_sample.py *)

\* torch.device("cuda" if torch.cuda.is_available() else "cpu")
SelectDevice(cuda) == IF cuda THEN "cuda" ELSE "cpu"

\* RegressionModel().to(device): a new module object, in training mode,
\* no optimizer step applied yet.
RegressionModel(id, device) ==
    [type |-> "RegressionModel", id |-> id, steps |-> 0,
     training |-> TRUE, device |-> device]

\* The parameter tensors of model object m, as a symbolic value.
Parameters(m) == <<m.id, m.steps>>

\* optimizer.step(): one update of the parameters.
OptimizerStep(m) == [m EXCEPT !.steps = @ + 1]

\* criterion(_model(x), y): the mean-squared error of the current parameters.
MSELoss(m) == [mse |-> Parameters(m)]

\* A tensor is its shape and its elements in row-major order.
Tensor(shape, data) == [shape |-> shape, data |-> data]

\* torch.tensor(rows) accepts a non-empty sequence of rows of one length.
Rectangular(rows) == \A i \in 1..Len(rows) : Len(rows[i]) = Len(rows[1])

FeatureTensor(rows) == Tensor(<<Len(rows), Len(rows[1])>>, rows)

\* The number the network with the parameters of m computes for one input row.
ModelOutput(m, row) == [params |-> Parameters(m), x |-> row]

\* self.net(x): one output row of OUTPUT_SIZE values per input row.
Net(m, x) ==
    Tensor(<<x.shape[1], OUTPUT_SIZE>>,
           [i \in 1..x.shape[1] |->
               [j \in 1..OUTPUT_SIZE |-> ModelOutput(m, x.data[i])]])

\* tensor.squeeze(-1): drops the last dimension when its size is 1.
SqueezeLast(t) ==
    LET d == Len(t.shape)
    IN IF d > 0 /\ t.shape[d] = 1
       THEN Tensor(SubSeq(t.shape, 1, d - 1),
                   IF d = 1 THEN t.data[1]
                   ELSE [i \in 1..Len(t.data) |-> t.data[i][1]])
       ELSE t

\* RegressionModel.forward
forward(m, x) == SqueezeLast(Net(m, x))

\* tensor.unsqueeze(0)
Unsqueeze0(t) == Tensor(<<1>> \o t.shape, <<t.data>>)

\* Mutant: creates a model when none is held, as the name suggests.
_get_or_create_model_creates(m) ==
    IF m = None THEN Return(RegressionModel(0, "cpu")) ELSE Return(m)

\* Mutant: a model that has not taken an optimizer step counts as absent.
_get_or_create_model_waits(m) ==
    IF m = None \/ m.steps = 0 THEN Raise("RuntimeError", NotTrainedMsg)
    ELSE Return(m)

_get_or_create_model(m) ==
    IF m = None THEN Raise("RuntimeError", NotTrainedMsg) ELSE Return(m)

Unbound == [type |-> "unbound"]

\* Mutant: the loss is evaluated after the optimizer step.
RECURSIVE TrainLoop_lossAfterStep(_, _, _)
TrainLoop_lossAfterStep(m, loss, remaining) ==
    IF remaining <= 0 THEN [model |-> m, loss |-> loss]
    ELSE TrainLoop_lossAfterStep(OptimizerStep(m), MSELoss(OptimizerStep(m)),
                                 remaining - 1)

\* for _ in range(epochs): the loss is computed on the current parameters,
\* then the optimizer updates them.
RECURSIVE TrainLoop(_, _, _)
TrainLoop(m, loss, remaining) ==
    IF remaining <= 0 THEN [model |-> m, loss |-> loss]
    ELSE TrainLoop(OptimizerStep(m), MSELoss(m), remaining - 1)

\* Mutant: a call that raises clears the handle.
train_regression_sample_resets(m, device, id, epochs, learning_rate, n_samples) ==
    IF n_samples < 0
    THEN \* torch.rand(n_samples, INPUT_SIZE) rejects a negative size
         [model |-> m, created |-> FALSE,
          out |-> Raise("RuntimeError", "negative dimension")]
    ELSE LET m0 == RegressionModel(id, device)
         IN IF learning_rate < 0
            THEN \* torch.optim.Adam rejects a negative learning rate
                 [model |-> None, created |-> TRUE,
                  out |-> Raise("ValueError", "invalid learning rate")]
            ELSE LET run == TrainLoop([m0 EXCEPT !.training = TRUE], Unbound, epochs)
                 IN IF run.loss = Unbound
                    THEN \* loss.item() with loss never assigned
                         [model |-> None, created |-> TRUE,
                          out |-> Raise("UnboundLocalError", "loss")]
                    ELSE [model |-> run.model, created |-> TRUE,
                          out |-> Return([final_loss |-> run.loss,
                                          epochs |-> epochs])]

\* train_regression_sample(epochs, learning_rate, n_samples), called when the
\* handle holds m and the next new object gets identity id.  Yields the new
\* handle, whether a model object was constructed, and the call's outcome.
train_regression_sample(m, device, id, epochs, learning_rate, n_samples) ==
    IF n_samples < 0
    THEN \* torch.rand(n_samples, INPUT_SIZE) rejects a negative size
         [model |-> m, created |-> FALSE,
          out |-> Raise("RuntimeError", "negative dimension")]
    ELSE LET m0 == RegressionModel(id, device)
         IN IF learning_rate < 0
            THEN \* torch.optim.Adam rejects a negative learning rate
                 [model |-> m0, created |-> TRUE,
                  out |-> Raise("ValueError", "invalid learning rate")]
            ELSE LET run == TrainLoop([m0 EXCEPT !.training = TRUE], Unbound, epochs)
                 IN IF run.loss = Unbound
                    THEN \* loss.item() with loss never assigned
                         [model |-> run.model, created |-> TRUE,
                          out |-> Raise("UnboundLocalError", "loss")]
                    ELSE [model |-> run.model, created |-> TRUE,
                          out |-> Return([final_loss |-> run.loss,
                                          epochs |-> epochs])]

\* Mutant: only the first row of a batch is used.
predict_dict_first_row(m, device, features) ==
    LET got == _get_or_create_model(m)
    IN IF got.status = "raise" THEN [model |-> m, out |-> got]
       ELSE IF Len(features.v) = 0
       THEN [model |-> m, out |-> Raise("IndexError", "list index out of range")]
       ELSE LET model == got.value
                rows == IF features.kind = "flat" THEN <<features.v>> ELSE <<features.v[1]>>
                x == FeatureTensor(rows)
                evald == [model EXCEPT !.training = FALSE]
            IN IF ~Rectangular(rows)
               THEN [model |-> model, out |-> Raise("ValueError", "ragged rows")]
               ELSE IF x.shape[2] # INPUT_SIZE
               THEN [model |-> evald, out |-> Raise("RuntimeError", "shape mismatch")]
               ELSE LET p0 == forward(evald, x)
                        pred == IF Len(p0.shape) = 0 THEN Unsqueeze0(p0) ELSE p0
                    IN [model |-> evald, out |-> Return([result |-> pred.data])]

\* Mutant: the prediction also updates the parameters.
predict_dict_updates(m, device, features) ==
    LET got == _get_or_create_model(m)
    IN IF got.status = "raise" THEN [model |-> m, out |-> got]
       ELSE IF Len(features.v) = 0
       THEN [model |-> m, out |-> Raise("IndexError", "list index out of range")]
       ELSE LET model == got.value
                rows == IF features.kind = "flat" THEN <<features.v>> ELSE features.v
                x == FeatureTensor(rows)
                evald == [model EXCEPT !.training = FALSE]
            IN IF ~Rectangular(rows)
               THEN [model |-> model, out |-> Raise("ValueError", "ragged rows")]
               ELSE IF x.shape[2] # INPUT_SIZE
               THEN [model |-> evald, out |-> Raise("RuntimeError", "shape mismatch")]
               ELSE LET p0 == forward(evald, x)
                        pred == IF Len(p0.shape) = 0 THEN Unsqueeze0(p0) ELSE p0
                    IN [model |-> OptimizerStep(evald),
                        out |-> Return([result |-> pred.data])]

\* predict_dict(features) called when the handle holds m.  features is
\* [kind |-> "flat", v |-> row] for a list of numbers and
\* [kind |-> "batch", v |-> rows] for a list of lists (or the empty list).
\* Yields the model object as the call leaves it and the call's outcome.
predict_dict(m, device, features) ==
    LET got == _get_or_create_model(m)
    IN IF got.status = "raise" THEN [model |-> m, out |-> got]
       ELSE IF Len(features.v) = 0
       THEN [model |-> m, out |-> Raise("IndexError", "list index out of range")]
       ELSE LET model == got.value
                rows == IF features.kind = "flat" THEN <<features.v>> ELSE features.v
                x == FeatureTensor(rows)
                evald == [model EXCEPT !.training = FALSE]
            IN IF ~Rectangular(rows)
               THEN [model |-> model, out |-> Raise("ValueError", "ragged rows")]
               ELSE IF x.shape[2] # INPUT_SIZE
               THEN [model |-> evald, out |-> Raise("RuntimeError", "shape mismatch")]
               ELSE LET p0 == forward(evald, x)
                        pred == IF Len(p0.shape) = 0 THEN Unsqueeze0(p0) ELSE p0
                    IN [model |-> evald, out |-> Return([result |-> pred.data])]

\* device_info()
device_info(cuda) ==
    Return([cuda_available |-> Str(cuda),
            device_name |-> IF cuda THEN "cuda" ELSE "cpu"])

----------------------------------------------------------------------------
(* Inputs of the regression adapter *)

RECURSIVE Batches(_)
Batches(k) ==
    IF k = 0 THEN {<< >>}
    ELSE LET shorter == Batches(k - 1)
         IN shorter \cup {Append(b, r) : b \in {s \in shorter : Len(s) = k - 1},
                                          r \in SampleRows \cup ShortRows}

\* A list of numbers: a feature vector, or a list that is too short to be one.
FlatInputs == {[kind |-> "flat", v |-> r] : r \in SampleRows \cup ShortRows}

\* A list of rows, the empty list included.
BatchInputs == {[kind |-> "batch", v |-> b] : b \in Batches(MaxBatch)}

\* Python's == on two feature arguments.
SameFeatures(f, g) == f.kind = g.kind /\ f.v = g.v

EpochInputs == -1..MaxEpochs
LearningRateInputs == {-1, 1}
SampleCountInputs == {-1, 2}

NoCall == [op |-> "none", args |-> << >>, out |-> Return(None), warn |-> {}]
NoPred == [features |-> None, result |-> None, repeated |-> FALSE]

\* No thread is inside a call.
IdleTrainer == [pc |-> "idle", epochs |-> 0, learning_rate |-> 0, n_samples |-> 0,
                remaining |-> 0, loss |-> Unbound]
IdlePredictor == [pc |-> "idle", features |-> None, model |-> 0, pred |-> << >>]
IdleThreads == [T |-> IdleTrainer, P |-> IdlePredictor, detached |-> {}]

----------------------------------------------------------------------------
(* The regression adapter as a state machine *)

InitML ==
    /\ cuda_available \in BOOLEAN
    /\ _device = SelectDevice(cuda_available)
    /\ _model = None
    /\ nextId = 1
    /\ ret = NoCall
    /\ trainedOk = FALSE
    /\ firstPred = NoPred
    /\ threads = IdleThreads

Train(epochs, learning_rate, n_samples) ==
    /\ nextId <= MaxInstances
    /\ LET r == train_regression_sample(_model, _device, nextId,
                                        epochs, learning_rate, n_samples)
       IN /\ _model' = r.model
          /\ nextId' = IF r.created THEN nextId + 1 ELSE nextId
          /\ ret' = [op |-> "train_regression_sample",
                     args |-> <<epochs, learning_rate, n_samples>>,
                     out |-> r.out]
          /\ trainedOk' = (trainedOk \/ r.out.status = "return")
          /\ firstPred' = IF r.created THEN NoPred ELSE firstPred
    /\ UNCHANGED <<_device, cuda_available, threads>>
    /\ UNCHANGED laVars

Predict(features) ==
    /\ LET r == predict_dict(_model, _device, features)
       IN /\ _model' = r.model
          /\ ret' = [op |-> "predict_dict", args |-> features, out |-> r.out]
          /\ firstPred' =
                IF r.out.status # "return" THEN firstPred
                ELSE IF firstPred = NoPred
                THEN [features |-> features, result |-> r.out.value.result,
                      repeated |-> FALSE]
                ELSE IF SameFeatures(firstPred.features, features)
                THEN [firstPred EXCEPT !.repeated = TRUE]
                ELSE firstPred
    /\ UNCHANGED <<_device, cuda_available, nextId, trainedOk, threads>>
    /\ UNCHANGED laVars

DeviceInfo ==
    /\ ret' = [op |-> "device_info", args |-> << >>, out |-> device_info(cuda_available)]
    /\ UNCHANGED <<_model, _device, cuda_available, nextId, trainedOk, firstPred,
                   threads>>
    /\ UNCHANGED laVars

InitLAIdle ==
    /\ matrix = << >>
    /\ lib = << >>
    /\ res = NoCall

Init == InitML /\ InitLAIdle

Next ==
    \/ \E e \in EpochInputs, lr \in LearningRateInputs, n \in SampleCountInputs :
          Train(e, lr, n)
    \/ \E f \in FlatInputs : Predict(f)
    \/ \E f \in BatchInputs : Predict(f)
    \/ DeviceInfo

Spec == Init /\ [][Next]_vars

\* device_info asks torch.cuda.is_available() again on every call instead of
\* reading _device, so its answer is the environment's at the time of the
\* call.  The environment's answer can change while the process runs (the
\* visible devices are re-read on each query until CUDA is initialised when the
\* NVML-based check is enabled, and a device can be lost).
CudaChange ==
    /\ cuda_available' = ~cuda_available
    /\ UNCHANGED <<_model, _device, nextId, ret, trainedOk, firstPred, threads>>
    /\ UNCHANGED laVars

NextDevice == Next \/ CudaChange

\* The regression adapter in an environment whose accelerator can come and go.
SpecDevice == Init /\ [][NextDevice]_vars

----------------------------------------------------------------------------
(* Two threads in the regression adapter.  The module takes no lock, so the   *)
(* statements of a train_regression_sample call and of a predict_dict call    *)
(* interleave freely; _model is read and written without synchronisation.     *)

\* The model object with identity id: the one the handle holds, or one the
\* handle no longer holds but a running predict_dict call still refers to.
ObjectOf(id) ==
    IF _model # None /\ _model.id = id THEN _model
    ELSE CHOOSE o \in threads.detached : o.id = id

TrainerFinishes(out) ==
    /\ ret' = [op |-> "train_regression_sample",
               args |-> <<threads.T.epochs, threads.T.learning_rate,
                          threads.T.n_samples>>,
               out |-> out]
    /\ trainedOk' = (trainedOk \/ out.status = "return")

PredictorFinishes(out) ==
    ret' = [op |-> "predict_dict", args |-> threads.P.features, out |-> out]

\* The trainer thread enters train_regression_sample.
T_Call(epochs, learning_rate, n_samples) ==
    /\ threads.T.pc = "idle"
    /\ nextId <= MaxInstances
    /\ threads' = [threads EXCEPT
                      !.T = [pc |-> "data", epochs |-> epochs,
                             learning_rate |-> learning_rate,
                             n_samples |-> n_samples,
                             remaining |-> epochs, loss |-> Unbound]]
    /\ UNCHANGED <<_model, _device, cuda_available, nextId, ret, trainedOk, firstPred>>
    /\ UNCHANGED laVars

\* x, y = _make_synthetic_data(n_samples); x, y = x.to(_device), y.to(_device)
T_Data ==
    /\ threads.T.pc = "data"
    /\ IF threads.T.n_samples < 0
       THEN /\ TrainerFinishes(Raise("RuntimeError", "negative dimension"))
            /\ threads' = [threads EXCEPT !.T = IdleTrainer]
       ELSE /\ threads' = [threads EXCEPT !.T.pc = "install"]
            /\ UNCHANGED <<ret, trainedOk>>
    /\ UNCHANGED <<_model, _device, cuda_available, nextId, firstPred>>
    /\ UNCHANGED laVars

\* _model = RegressionModel().to(_device).  The object the handle held stays
\* alive only while the predictor thread refers to it.
T_Install ==
    /\ threads.T.pc = "install"
    /\ _model' = RegressionModel(nextId, _device)
    /\ nextId' = nextId + 1
    /\ threads' = [threads EXCEPT
                      !.T.pc = "optim",
                      !.detached =
                          IF /\ _model # None
                             /\ threads.P.pc \in {"tensor", "eval", "fwd"}
                             /\ threads.P.model = _model.id
                          THEN @ \cup {_model} ELSE @]
    /\ UNCHANGED <<_device, cuda_available, ret, trainedOk, firstPred>>
    /\ UNCHANGED laVars

\* optimizer = torch.optim.Adam(_model.parameters(), lr=learning_rate);
\* criterion = nn.MSELoss(); _model.train()
T_Optim ==
    /\ threads.T.pc = "optim"
    /\ IF threads.T.learning_rate < 0
       THEN /\ TrainerFinishes(Raise("ValueError", "invalid learning rate"))
            /\ threads' = [threads EXCEPT !.T = IdleTrainer]
            /\ _model' = _model
       ELSE /\ threads' = [threads EXCEPT !.T.pc = "loop"]
            /\ _model' = [_model EXCEPT !.training = TRUE]
            /\ UNCHANGED <<ret, trainedOk>>
    /\ UNCHANGED <<_device, cuda_available, nextId, firstPred>>
    /\ UNCHANGED laVars

\* One iteration of the loop: zero_grad, forward, loss, backward, step.
T_Epoch ==
    /\ threads.T.pc = "loop"
    /\ threads.T.remaining > 0
    /\ LET run == TrainLoop(_model, threads.T.loss, 1)
       IN /\ _model' = run.model
          /\ threads' = [threads EXCEPT !.T.loss = run.loss,
                                        !.T.remaining = @ - 1]
    /\ UNCHANGED <<_device, cuda_available, nextId, ret, trainedOk, firstPred>>
    /\ UNCHANGED laVars

\* final_loss = loss.item(); return {...}
T_Finish ==
    /\ threads.T.pc = "loop"
    /\ threads.T.remaining <= 0
    /\ TrainerFinishes(IF threads.T.loss = Unbound
                       THEN Raise("UnboundLocalError", "loss")
                       ELSE Return([final_loss |-> threads.T.loss,
                                    epochs |-> threads.T.epochs]))
    /\ threads' = [threads EXCEPT !.T = IdleTrainer]
    /\ UNCHANGED <<_model, _device, cuda_available, nextId, firstPred>>
    /\ UNCHANGED laVars

\* The predictor thread enters predict_dict.
P_Call(features) ==
    /\ threads.P.pc = "idle"
    /\ threads' = [threads EXCEPT
                      !.P = [IdlePredictor EXCEPT !.pc = "get",
                                                  !.features = features]]
    /\ UNCHANGED <<_model, _device, cuda_available, nextId, ret, trainedOk, firstPred>>
    /\ UNCHANGED laVars

\* model = _get_or_create_model()
P_Get ==
    /\ threads.P.pc = "get"
    /\ LET got == _get_or_create_model(_model)
       IN IF got.status = "raise"
          THEN /\ PredictorFinishes(got)
               /\ threads' = [threads EXCEPT !.P = IdlePredictor]
          ELSE /\ threads' = [threads EXCEPT !.P.pc = "tensor",
                                             !.P.model = got.value.id]
               /\ ret' = ret
    /\ UNCHANGED <<_model, _device, cuda_available, nextId, trainedOk, firstPred>>
    /\ UNCHANGED laVars

\* The rows predict_dict makes a tensor of.
RowsOf(features) ==
    IF features.kind = "flat" THEN <<features.v>> ELSE features.v

\* if isinstance(features[0], (int, float)): ...; x = torch.tensor(features, ...)
P_Tensor ==
    /\ threads.P.pc = "tensor"
    /\ LET f == threads.P.features
           failure == IF Len(f.v) = 0
                      THEN Raise("IndexError", "list index out of range")
                      ELSE Raise("ValueError", "ragged rows")
       IN IF Len(f.v) = 0 \/ ~Rectangular(RowsOf(f))
          THEN /\ PredictorFinishes(failure)
               /\ threads' = [threads EXCEPT
                                 !.P = IdlePredictor,
                                 !.detached = {d \in @ : d.id # threads.P.model}]
          ELSE /\ threads' = [threads EXCEPT !.P.pc = "eval"]
               /\ ret' = ret
    /\ UNCHANGED <<_model, _device, cuda_available, nextId, trainedOk, firstPred>>
    /\ UNCHANGED laVars

\* model.eval()
P_Eval ==
    /\ threads.P.pc = "eval"
    /\ LET o == [ObjectOf(threads.P.model) EXCEPT !.training = FALSE]
       IN IF _model # None /\ _model.id = o.id
          THEN /\ _model' = o
               /\ threads' = [threads EXCEPT !.P.pc = "fwd"]
          ELSE /\ _model' = _model
               /\ threads' = [threads EXCEPT
                                 !.P.pc = "fwd",
                                 !.detached = {d \in @ : d.id # o.id} \cup {o}]
    /\ UNCHANGED <<_device, cuda_available, nextId, ret, trainedOk, firstPred>>
    /\ UNCHANGED laVars

\* with torch.no_grad(): pred = model(x), on the parameters the object has now.
P_Forward ==
    /\ threads.P.pc = "fwd"
    /\ LET x == FeatureTensor(RowsOf(threads.P.features))
       IN IF x.shape[2] # INPUT_SIZE
          THEN /\ PredictorFinishes(Raise("RuntimeError", "shape mismatch"))
               /\ threads' = [threads EXCEPT
                                 !.P = IdlePredictor,
                                 !.detached = {d \in @ : d.id # threads.P.model}]
          ELSE /\ threads' = [threads EXCEPT
                                 !.P.pc = "ret",
                                 !.P.pred = forward(ObjectOf(threads.P.model), x),
                                 !.detached = {d \in @ : d.id # threads.P.model}]
               /\ ret' = ret
    /\ UNCHANGED <<_model, _device, cuda_available, nextId, trainedOk, firstPred>>
    /\ UNCHANGED laVars

\* if pred.dim() == 0: pred = pred.unsqueeze(0); return {"result": pred.cpu().tolist()}
P_Return ==
    /\ threads.P.pc = "ret"
    /\ LET p0 == threads.P.pred
           pred == IF Len(p0.shape) = 0 THEN Unsqueeze0(p0) ELSE p0
       IN PredictorFinishes(Return([result |-> pred.data]))
    /\ threads' = [threads EXCEPT !.P = IdlePredictor]
    /\ UNCHANGED <<_model, _device, cuda_available, nextId, trainedOk, firstPred>>
    /\ UNCHANGED laVars

\* The feature arguments of the predictor thread: one of each outcome of
\* predict_dict.
ConcFlatInputs == {[kind |-> "flat", v |-> <<1, 0>>], [kind |-> "flat", v |-> <<1>>]}
ConcBatchInputs ==
    {[kind |-> "batch", v |-> b] :
        b \in {<< >>, <<<<1, 0>>, <<0, 1>>>>, <<<<1>>, <<1, 0>>>>}}

NextConc ==
    \/ \E e \in EpochInputs, lr \in LearningRateInputs, n \in SampleCountInputs :
          T_Call(e, lr, n)
    \/ T_Data
    \/ T_Install
    \/ T_Optim
    \/ T_Epoch
    \/ T_Finish
    \/ \E f \in ConcFlatInputs : P_Call(f)
    \/ \E f \in ConcBatchInputs : P_Call(f)
    \/ P_Get
    \/ P_Tensor
    \/ P_Eval
    \/ P_Forward
    \/ P_Return

SpecConc == Init /\ [][NextConc]_vars

----------------------------------------------------------------------------
(* numpy arrays *)

\* An ndarray is its shape and its elements in row-major order.
\* np.array(rows, dtype=float) of a nested list with rows of one length.
NpArray(rows) ==
    LET m == Len(rows)
        n == Len(rows[1])
    IN [shape |-> <<m, n>>,
        data |-> [idx \in 1..(m * n) |-> rows[((idx - 1) \div n) + 1][((idx - 1) % n) + 1]]]

\* A one-dimensional ndarray.
NpVector(elems) == [shape |-> <<Len(elems)>>, data |-> elems]

\* M[i, j] of a two-dimensional ndarray (indices from 1).
At(M, i, j) == M.data[(i - 1) * M.shape[2] + j]

\* ndarray.tolist()
ToList(M) ==
    IF Len(M.shape) = 1 THEN M.data
    ELSE [i \in 1..M.shape[1] |-> [j \in 1..M.shape[2] |-> At(M, i, j)]]

\* sum over l in 1..upto of X[i, l] * Y[l, j]
RECURSIVE DotTo(_, _, _, _, _)
DotTo(X, Y, i, j, upto) ==
    IF upto = 0 THEN 0
    ELSE DotTo(X, Y, i, j, upto - 1) + At(X, i, upto) * At(Y, upto, j)

\* X @ Y
MatMul(X, Y) ==
    LET m == X.shape[1]
        n == Y.shape[2]
    IN [shape |-> <<m, n>>,
        data |-> [idx \in 1..(m * n) |->
                     DotTo(X, Y, ((idx - 1) \div n) + 1, ((idx - 1) % n) + 1, X.shape[2])]]

\* np.diag(v) of a one-dimensional array
Diag(v) ==
    LET k == v.shape[1]
    IN [shape |-> <<k, k>>,
        data |-> [idx \in 1..(k * k) |->
                     IF (idx - 1) \div k = (idx - 1) % k
                     THEN v.data[((idx - 1) \div k) + 1] ELSE 0]]

\* np.zeros_like(v) of a one-dimensional array
ZerosLike(v) == [shape |-> v.shape, data |-> [i \in 1..v.shape[1] |-> 0]]

\* M[:, :k] and M[:k, :]
TakeCols(M, k) ==
    [shape |-> <<M.shape[1], k>>,
     data |-> [idx \in 1..(M.shape[1] * k) |->
                  At(M, ((idx - 1) \div k) + 1, ((idx - 1) % k) + 1)]]
TakeRows(M, k) ==
    [shape |-> <<k, M.shape[2]>>, data |-> SubSeq(M.data, 1, k * M.shape[2])]

\* Mutant: a negative stop selects nothing.
PySliceStop_clamps(stop, len) == Min(Max(stop, 0), len)

\* Number of elements a[:stop] selects from an array of length len.
PySliceStop(stop, len) ==
    IF stop < 0 THEN Max(len + stop, 0) ELSE Min(stop, len)

\* Floating-point values the functions return besides finite ratios.
Inf == [kind |-> "inf"]
NaN == [kind |-> "nan"]
Ratio(a, b) == [kind |-> "ratio", num |-> a, den |-> b]

\* a / b on numpy floats: a zero divisor gives inf or nan and a warning.
NpDivide(a, b) ==
    IF b # 0 THEN [value |-> Ratio(a, b), warn |-> {}]
    ELSE IF a = 0 THEN [value |-> NaN, warn |-> {"invalid value"}]
    ELSE [value |-> Inf, warn |-> {"divide by zero"}]

\* np.finfo(float).eps is 2^-52 = 1 / (EpsInvRoot * EpsInvRoot).
EpsInvRoot == 67108864

\* A threshold is n (scale "one") or n * eps (scale "eps"), n an integer.
\* s > threshold for an integer s with 0 <= s < 32:
\* s > n * 2^-52  iff  s * 2^26 > n / 2^26  iff  s * 2^26 > floor(n / 2^26).
Exceeds(s, threshold) ==
    IF threshold.scale = "one" THEN s > threshold.n
    ELSE s * EpsInvRoot > threshold.n \div EpsInvRoot

\* S.max()
ArrayMax(v) == CHOOSE x \in {v.data[i] : i \in 1..v.shape[1]} :
                   \A i \in 1..v.shape[1] : v.data[i] <= x

----------------------------------------------------------------------------
(* linalg/decomposition.py *)

\* np.linalg.svd(A, full_matrices): F is the factorization the library
\* computes for A, with square U and Vt; the economy factors are its first
\* k = min(m, n) columns of U and rows of Vt.
LinalgSvd(A, F, full_matrices) ==
    LET k == Min(A.shape[1], A.shape[2])
    IN IF full_matrices THEN <<F.U, F.S, F.Vt>>
       ELSE <<TakeCols(F.U, k), F.S, TakeRows(F.Vt, k)>>

\* An optional argument is << >> when omitted and <<v>> when given.
ArgOr(arg, default) == IF arg = << >> THEN default ELSE arg[1]

\* Mutant: full_matrices defaults to False.
svd_reduced_default(m, F, full_matrices) ==
    LET A == NpArray(m)
    IN Return(LinalgSvd(A, F, ArgOr(full_matrices, FALSE)))

\* svd(matrix, full_matrices=True)
svd(m, F, full_matrices) ==
    LET A == NpArray(m)
    IN Return(LinalgSvd(A, F, ArgOr(full_matrices, TRUE)))

\* Mutant: the flag is not passed on to svd.
svd_dict_ignores_flag(m, F, full_matrices) ==
    LET usv == svd(m, F, << >>).value
    IN Return([U |-> ToList(usv[1]), S |-> ToList(usv[2]), Vt |-> ToList(usv[3])])

\* svd_dict(matrix, full_matrices=True)
svd_dict(m, F, full_matrices) ==
    LET usv == svd(m, F, <<ArgOr(full_matrices, TRUE)>>).value
    IN Return([U |-> ToList(usv[1]), S |-> ToList(usv[2]), Vt |-> ToList(usv[3])])

\* svd_reduced(matrix)
svd_reduced(m, F) == svd(m, F, <<FALSE>>)

\* Mutant: singular values equal to the threshold are counted too.
matrix_rank_inclusive(m, F, tolerance) ==
    LET A == NpArray(m)
        S == LinalgSvd(A, F, TRUE)[2]
        tol == IF tolerance = << >>
               THEN [n |-> ArrayMax(S) * Max(A.shape[1], A.shape[2]), scale |-> "eps"]
               ELSE [n |-> tolerance[1], scale |-> "one"]
    IN Return(Cardinality({i \in 1..S.shape[1] :
                              Exceeds(S.data[i], tol) \/ S.data[i] = tol.n}))

\* matrix_rank(matrix, tolerance=None)
matrix_rank(m, F, tolerance) ==
    LET A == NpArray(m)
        S == LinalgSvd(A, F, TRUE)[2]
        tol == IF tolerance = << >>
               THEN [n |-> ArrayMax(S) * Max(A.shape[1], A.shape[2]), scale |-> "eps"]
               ELSE [n |-> tolerance[1], scale |-> "one"]
    IN Return(Cardinality({i \in 1..S.shape[1] : Exceeds(S.data[i], tol)}))

\* Mutant: the guard tests the largest singular value.
condition_number_guards_first(m, F) ==
    LET A == NpArray(m)
        S == LinalgSvd(A, F, TRUE)[2]
    IN IF S.data[1] = 0
       THEN [out |-> Return(Inf), warn |-> {}]
       ELSE LET q == NpDivide(S.data[1], S.data[S.shape[1]])
            IN [out |-> Return(q.value), warn |-> q.warn]

\* condition_number(matrix): the outcome and the numpy warnings raised.
condition_number(m, F) ==
    LET A == NpArray(m)
        S == LinalgSvd(A, F, TRUE)[2]
    IN IF S.data[S.shape[1]] = 0
       THEN [out |-> Return(Inf), warn |-> {}]
       ELSE LET q == NpDivide(S.data[1], S.data[S.shape[1]])
            IN [out |-> Return(q.value), warn |-> q.warn]

\* Mutant: one singular value too few is kept.
low_rank_approximation_short(m, F, rank) ==
    LET A == NpArray(m)
        usv == LinalgSvd(A, F, FALSE)
        S == usv[2]
        kept == PySliceStop(rank - 1, S.shape[1])
        S_truncated == [ZerosLike(S) EXCEPT
                           !.data = [i \in 1..S.shape[1] |->
                                        IF i <= kept THEN S.data[i] ELSE @[i]]]
    IN Return(MatMul(MatMul(usv[1], Diag(S_truncated)), usv[3]))

\* low_rank_approximation(matrix, rank)
low_rank_approximation(m, F, rank) ==
    LET A == NpArray(m)
        usv == LinalgSvd(A, F, FALSE)
        S == usv[2]
        kept == PySliceStop(rank, S.shape[1])
        S_truncated == [ZerosLike(S) EXCEPT
                           !.data = [i \in 1..S.shape[1] |->
                                        IF i <= kept THEN S.data[i] ELSE @[i]]]
    IN Return(MatMul(MatMul(usv[1], Diag(S_truncated)), usv[3]))

----------------------------------------------------------------------------
(* Inputs of the decomposition adapter *)

Perms(d) == {p \in [1..d -> 1..d] : \A i, j \in 1..d : p[i] = p[j] => i = j}

\* The orthogonal d x d matrix with sign[i] at (i, p[i]) and 0 elsewhere.
PermMatrix(d, p, sign) ==
    [shape |-> <<d, d>>,
     data |-> [idx \in 1..(d * d) |->
                  IF p[((idx - 1) \div d) + 1] = ((idx - 1) % d) + 1
                  THEN sign[((idx - 1) \div d) + 1] ELSE 0]]

\* Singular values: non-negative integers up to MaxSV in descending order.
Descending(k) == {s \in [1..k -> 0..MaxSV] : \A i \in 1..(k - 1) : s[i] >= s[i + 1]}

\* The m x n matrix U * Sigma * Vt, Sigma carrying S on its diagonal.
RECURSIVE TripleSum(_, _, _, _, _, _)
TripleSum(U, S, Vt, i, j, upto) ==
    IF upto = 0 THEN 0
    ELSE TripleSum(U, S, Vt, i, j, upto - 1)
             + At(U, i, upto) * S.data[upto] * At(Vt, upto, j)

Compose(F) ==
    [i \in 1..F.U.shape[1] |-> [j \in 1..F.Vt.shape[2] |->
        TripleSum(F.U, F.S, F.Vt, i, j, F.S.shape[1])]]

FlagInputs == {<< >>, <<TRUE>>, <<FALSE>>}
ToleranceInputs == {<< >>} \cup {<<t>> : t \in -1..MaxSV}
RankInputs == (0 - MaxDim - 1)..(MaxDim + 1)

----------------------------------------------------------------------------
(* The decomposition functions applied to a drawn matrix *)

InitLA ==
    /\ \E m \in 1..MaxDim, n \in 1..MaxDim :
         \E p \in Perms(m), sign \in [1..m -> {-1, 1}],
            q \in Perms(n), s \in Descending(Min(m, n)) :
              /\ lib = [U |-> PermMatrix(m, p, sign),
                        S |-> NpVector(s),
                        Vt |-> PermMatrix(n, q, [i \in 1..n |-> 1])]
              /\ matrix = Compose(lib)
    /\ res = NoCall

InitMLIdle ==
    /\ cuda_available = FALSE
    /\ _device = SelectDevice(cuda_available)
    /\ _model = None
    /\ nextId = 1
    /\ ret = NoCall
    /\ trainedOk = FALSE
    /\ firstPred = NoPred
    /\ threads = IdleThreads

\* One call is made on each drawn matrix: the functions keep no state, so a
\* second call on the same matrix would repeat the first.
Called(op, args, out, warn) ==
    /\ res.op = "none"
    /\ res' = [op |-> op, args |-> args, out |-> out, warn |-> warn]
    /\ UNCHANGED <<matrix, lib>>
    /\ UNCHANGED mlVars

CallSvd(flag) == Called("svd", flag, svd(matrix, lib, flag), {})

CallSvdDict(flag) == Called("svd_dict", flag, svd_dict(matrix, lib, flag), {})

CallSvdReduced == Called("svd_reduced", << >>, svd_reduced(matrix, lib), {})

CallMatrixRank(tolerance) ==
    Called("matrix_rank", tolerance, matrix_rank(matrix, lib, tolerance), {})

CallConditionNumber ==
    LET r == condition_number(matrix, lib)
    IN Called("condition_number", << >>, r.out, r.warn)

CallLowRankApproximation(rank) ==
    Called("low_rank_approximation", <<rank>>,
           low_rank_approximation(matrix, lib, rank), {})

InitLinalg == InitMLIdle /\ InitLA

NextLinalg ==
    \/ \E flag \in FlagInputs : CallSvd(flag)
    \/ \E flag \in FlagInputs : CallSvdDict(flag)
    \/ CallSvdReduced
    \/ \E tolerance \in ToleranceInputs : CallMatrixRank(tolerance)
    \/ CallConditionNumber
    \/ \E rank \in RankInputs : CallLowRankApproximation(rank)

SpecLinalg == InitLinalg /\ [][NextLinalg]_vars

----------------------------------------------------------------------------
(* Properties of the regression adapter, checked under Spec *)

StateError == Raise("RuntimeError", NotTrainedMsg)

\* The step is a call of predict_dict / train_regression_sample.
PredictStep == ret'.op = "predict_dict"
TrainStep == ret'.op = "train_regression_sample"

\* A feature argument made of rows of INPUT_SIZE numbers: one flat feature
\* vector, or a sequence of at least one feature vector.
WellFormed(f) ==
    IF f.kind = "flat" THEN Len(f.v) = INPUT_SIZE
    ELSE Len(f.v) >= 1 /\ \A i \in 1..Len(f.v) : Len(f.v[i]) = INPUT_SIZE

\* C1: whenever the handle is absent, predict_dict with any input fails with
\* the state error, returns no result, and leaves the handle absent.
C1_PredictUntrainedFails ==
    [][(_model = None /\ PredictStep)
          => (ret'.out = StateError /\ _model' = None)]_vars

\* C1 witness: predict_dict was called with a batch argument while the handle
\* was absent, and raised.
C1_Witness ==
    /\ _model = None
    /\ ret.op = "predict_dict"
    /\ ret.args.kind = "batch"
    /\ ret.out.status = "raise"

\* C2 (as claimed): as long as no train_regression_sample call has returned
\* without error, the handle is absent and predict_dict fails with the state
\* error.
C2_AbsentUntilTrainReturns ==
    ~trainedOk =>
        /\ _model = None
        /\ (ret.op = "predict_dict" => ret.out = StateError)

\* C3: once the handle is non-absent it stays non-absent, whatever call is
\* made and whether it succeeds or fails.
C3_NeverBackToUntrained ==
    [][_model # None => _model' # None]_vars

\* C3 witness: a train call raised while a model was already held (this is
\* at least the second object constructed), and the handle is still non-absent.
C3_Witness ==
    /\ ret.op = "train_regression_sample"
    /\ ret.out.status = "raise"
    /\ nextId > 2
    /\ _model # None

\* C4: in the Trained state, predict_dict on k >= 1 feature vectors returns
\* exactly k numbers, the i-th being the model output for the i-th vector;
\* on one flat feature vector it returns exactly one number, the same as for
\* that vector wrapped in a one-element sequence.
C4_OnePredictionPerSample ==
    [][(_model # None /\ PredictStep /\ WellFormed(ret'.args))
          => LET f == ret'.args
                 r == ret'.out
             IN /\ r.status = "return"
                /\ IF f.kind = "batch"
                   THEN /\ Len(r.value.result) = Len(f.v)
                        /\ \A i \in 1..Len(f.v) :
                              r.value.result[i] = ModelOutput(_model, f.v[i])
                   ELSE /\ Len(r.value.result) = 1
                        /\ r.value.result[1] = ModelOutput(_model, f.v)
                        /\ r = predict_dict(_model, _device,
                                            [kind |-> "batch", v |-> <<f.v>>]).out]_vars

\* C4 witness: a batch of two different feature vectors was predicted.
C4_Witness ==
    /\ ret.op = "predict_dict"
    /\ ret.out.status = "return"
    /\ ret.args.kind = "batch"
    /\ Len(ret.args.v) = 2
    /\ ret.args.v[1] # ret.args.v[2]

\* C4 witness for the flat form: one flat feature vector was predicted.
C4_WitnessFlat ==
    /\ ret.op = "predict_dict"
    /\ ret.out.status = "return"
    /\ ret.args.kind = "flat"

\* C5: predict_dict leaves the handle on the same model object with the same
\* parameters, and a predict_dict call repeating the input of an earlier one,
\* with no train call in between, returns the same result.
C5_PredictDoesNotChangeModel ==
    [][(_model # None /\ PredictStep)
          => /\ _model' # None
             /\ _model'.id = _model.id
             /\ Parameters(_model') = Parameters(_model)
             /\ (/\ firstPred # NoPred
                 /\ ret'.out.status = "return"
                 /\ SameFeatures(firstPred.features, ret'.args))
                   => ret'.out.value.result = firstPred.result]_vars

\* C5 witness: the input of the first prediction since training was predicted
\* again, after a call with another input.
C5_Witness ==
    /\ firstPred # NoPred
    /\ firstPred.repeated
    /\ ret.op = "predict_dict"
    /\ ret.out.status = "return"
    /\ SameFeatures(firstPred.features, ret.args)

\* C6: a train_regression_sample(epochs = n) call that returns leaves in the
\* handle a model object constructed by that call, with exactly n optimizer
\* steps applied; it returns epochs = n and as final_loss the loss computed in
\* the n-th iteration (on the parameters after n - 1 steps).  The handle always
\* holds the most recently constructed object, which predict_dict then uses.
C6_TrainInstallsNewModel ==
    /\ [][(TrainStep /\ ret'.out.status = "return")
            => LET n == ret'.args[1]
               IN /\ _model' # None
                  /\ _model'.id = nextId
                  /\ nextId' = nextId + 1
                  /\ _model'.steps = n
                  /\ ret'.out.value.epochs = n
                  /\ ret'.out.value.final_loss = [mse |-> <<nextId, n - 1>>]
                  /\ DOMAIN ret'.out.value = {"final_loss", "epochs"}]_vars
    /\ [](_model # None => _model.id = nextId - 1)
    /\ []((ret.op = "predict_dict" /\ ret.out.status = "return")
            => \A i \in 1..Len(ret.out.value.result) :
                  ret.out.value.result[i].params = <<nextId - 1, _model.steps>>)

\* C6 witness: a second training call returned after MaxEpochs epochs,
\* replacing an earlier model.
C6_Witness ==
    /\ ret.op = "train_regression_sample"
    /\ ret.out.status = "return"
    /\ ret.args[1] = MaxEpochs
    /\ nextId > 2
    /\ _model # None
    /\ _model.steps = MaxEpochs

----------------------------------------------------------------------------
(* Properties of the decomposition adapter, checked under SpecLinalg *)

\* The drawn matrix: its row and column counts, the singular values the
\* library computes for it, and whether all its entries are zero.
NRows == Len(matrix)
NCols == Len(matrix[1])
K == Min(NRows, NCols)
SV == lib.S.data
AllZero == \A i \in 1..NRows, j \in 1..NCols : matrix[i][j] = 0

\* s is strictly greater than the threshold of a matrix_rank call with
\* argument tolerance: the tolerance when given, else
\* (largest singular value) * max(rows, cols) * 2^-52.
AboveThreshold(s, tolerance) ==
    IF tolerance # << >> THEN s > tolerance[1]
    ELSE s * EpsInvRoot > (SV[1] * Max(NRows, NCols)) \div EpsInvRoot

\* matrix_rank returned the count of singular values above the threshold,
\* a number in 0..min(rows, cols).
RankIsCount ==
    /\ res.out.status = "return"
    /\ res.out.value = Cardinality({i \in 1..K : AboveThreshold(SV[i], res.args)})
    /\ res.out.value \in 0..K

\* C7 (as claimed): matrix_rank returns the number of singular values strictly
\* greater than the threshold (the given tolerance, else largest singular
\* value x max(rows, cols) x eps); the result is in 0..min(rows, cols) and is
\* 0 for every all-zero matrix.
C7_RankZeroForEveryZeroMatrix ==
    res.op = "matrix_rank" => (RankIsCount /\ (AllZero => res.out.value = 0))

\* C7 (amended): as C7, but the result is 0 for an all-zero matrix when the
\* tolerance is omitted or not negative.
C7_RankCountsAboveThreshold ==
    res.op = "matrix_rank" =>
        /\ RankIsCount
        /\ (AllZero /\ (res.args = << >> \/ res.args[1] >= 0)) => res.out.value = 0

\* C7 witness: matrix_rank with the default tolerance on the 2 x 2 zero matrix.
C7_Witness ==
    /\ res.op = "matrix_rank"
    /\ res.args = << >>
    /\ AllZero
    /\ K = 2
    /\ res.out.value = 0

\* C7 witness: a given tolerance left a non-zero singular value out.
C7_WitnessTolerance ==
    /\ res.op = "matrix_rank"
    /\ res.args # << >>
    /\ SV[K] > 0
    /\ res.out.value < K

\* C8: condition_number returns +inf when the smallest singular value is
\* exactly zero (the all-zero matrix included), else largest / smallest; the
\* result is never negative nor below 1, and no division by zero happens.
C8_ConditionNumber ==
    res.op = "condition_number" =>
        /\ res.out.status = "return"
        /\ res.warn = {}
        /\ IF SV[K] = 0 THEN res.out.value = Inf
           ELSE /\ res.out.value = Ratio(SV[1], SV[K])
                /\ res.out.value.den > 0
                /\ res.out.value.num >= res.out.value.den
        /\ AllZero => res.out.value = Inf
        /\ res.out.value # NaN

\* C8 witness: condition_number of a non-zero singular matrix.
C8_Witness ==
    /\ res.op = "condition_number"
    /\ SV[1] > 0
    /\ SV[K] = 0
    /\ res.out.value = Inf

\* C8 witness: condition_number of a matrix with a finite ratio above 1.
C8_WitnessFinite ==
    /\ res.op = "condition_number"
    /\ SV[K] > 0
    /\ SV[1] > SV[K]

\* C9: for 1 <= rank <= min(m, n), low_rank_approximation returns the m x n
\* matrix U * diag(S') * Vt, S' being S with every value after the first rank
\* ones set to zero; for rank = min(m, n) this is the input matrix.
C9_LowRankKeepsTopTriplets ==
    (res.op = "low_rank_approximation" /\ res.args[1] \in 1..K) =>
        /\ res.out.status = "return"
        /\ res.out.value.shape = <<NRows, NCols>>
        /\ \A i \in 1..NRows, j \in 1..NCols :
              /\ At(res.out.value, i, j)
                    = TripleSum(lib.U, lib.S, lib.Vt, i, j, res.args[1])
              /\ res.args[1] = K => At(res.out.value, i, j) = matrix[i][j]

\* C9 witness: a rank-1 approximation that dropped a non-zero singular value.
C9_Witness ==
    /\ res.op = "low_rank_approximation"
    /\ res.args[1] = 1
    /\ K = 2
    /\ SV[2] > 0
    /\ ToList(res.out.value) # matrix

\* C9 witness: the approximation of full rank of a non-square matrix.
C9_WitnessFull ==
    /\ res.op = "low_rank_approximation"
    /\ res.args[1] = K
    /\ NRows # NCols
    /\ SV[K] > 0
    /\ ToList(res.out.value) = matrix

\* The call asked for full factors: full_matrices omitted or True.
FullRequested == res.args = << >> \/ res.args = <<TRUE>>

\* C10: with k = min(m, n), svd returns U of shape m x m and Vt of shape
\* n x n when full_matrices is true, m x k and k x n when it is false, and S
\* of length k in both cases; full_matrices defaults to true in svd and
\* svd_dict.
C10_FactorShapes ==
    /\ res.op = "svd" =>
          /\ res.out.value[1].shape = <<NRows, IF FullRequested THEN NRows ELSE K>>
          /\ res.out.value[2].shape = <<K>>
          /\ res.out.value[3].shape = <<IF FullRequested THEN NCols ELSE K, NCols>>
    /\ res.op = "svd_dict" =>
          /\ Len(res.out.value.U) = NRows
          /\ \A i \in 1..NRows :
                Len(res.out.value.U[i]) = IF FullRequested THEN NRows ELSE K
          /\ Len(res.out.value.S) = K
          /\ Len(res.out.value.Vt) = IF FullRequested THEN NCols ELSE K
          /\ \A i \in 1..Len(res.out.value.Vt) : Len(res.out.value.Vt[i]) = NCols

\* C10 witness: svd with full_matrices omitted on a matrix with more columns
\* than rows, where the full and the economy shapes differ.
C10_Witness ==
    /\ res.op = "svd"
    /\ res.args = << >>
    /\ NRows < NCols
    /\ res.out.value[3].shape = <<NCols, NCols>>

\* C10 witness: svd with full_matrices false on a matrix with more rows than
\* columns.
C10_WitnessReduced ==
    /\ res.op = "svd"
    /\ res.args = <<FALSE>>
    /\ NRows > NCols
    /\ res.out.value[1].shape = <<NRows, NCols>>

\* The two-dimensional array M and the nested list rows agree element for
\* element.
ListFormOf2(rows, M) ==
    /\ Len(rows) = M.shape[1]
    /\ \A i \in 1..Len(rows) :
          /\ Len(rows[i]) = M.shape[2]
          /\ \A j \in 1..Len(rows[i]) : rows[i][j] = At(M, i, j)

\* The one-dimensional array v and the list elems agree element for element.
ListFormOf1(elems, v) ==
    /\ Len(elems) = v.shape[1]
    /\ \A i \in 1..Len(elems) : elems[i] = v.data[i]

\* C11: svd_reduced(matrix) returns exactly what svd(matrix, full_matrices =
\* false) returns, and svd_dict(matrix, flag) returns a mapping with exactly
\* the keys U, S, Vt holding the list forms of the factors svd(matrix, flag)
\* returns.
C11_WrappersAddNothing ==
    /\ res.op = "svd_reduced" =>
          /\ res.out = svd(matrix, lib, <<FALSE>>)
          /\ res.out.value[1].shape = <<NRows, K>>
          /\ res.out.value[3].shape = <<K, NCols>>
    /\ res.op = "svd_dict" =>
          LET factors == svd(matrix, lib, res.args).value
          IN /\ res.out.status = "return"
             /\ DOMAIN res.out.value = {"U", "S", "Vt"}
             /\ ListFormOf2(res.out.value.U, factors[1])
             /\ ListFormOf1(res.out.value.S, factors[2])
             /\ ListFormOf2(res.out.value.Vt, factors[3])

\* C11 witness: svd_dict with full_matrices false on a non-zero matrix with
\* more rows than columns, where the economy U differs from the full U.
C11_Witness ==
    /\ res.op = "svd_dict"
    /\ res.args = <<FALSE>>
    /\ NRows > NCols
    /\ ~AllZero
    /\ Len(res.out.value.U[1]) = NCols

\* C11 witness: svd_reduced on a matrix with more columns than rows.
C11_WitnessReduced ==
    /\ res.op = "svd_reduced"
    /\ NRows < NCols
    /\ res.out.value[3].shape = <<NRows, NCols>>

\* Number of singular values low_rank_approximation keeps for a rank outside
\* 1..min(m, n): all for a rank above, none for 0, the first max(k - j, 0)
\* for a negative rank -j.
KeptOutOfRange(rank) ==
    IF rank > K THEN K
    ELSE IF rank = 0 THEN 0
    ELSE Max(K - (0 - rank), 0)

\* C14: for an integer rank outside 1..min(m, n) low_rank_approximation raises
\* no error and returns an m x n matrix: the full reconstruction for
\* rank > k, the zero matrix for rank = 0, and the sum of the first
\* max(k - j, 0) singular triplets for rank = -j.
C14_NoBoundsCheckOnRank ==
    (res.op = "low_rank_approximation" /\ res.args[1] \notin 1..K) =>
        /\ res.out.status = "return"
        /\ res.out.value.shape = <<NRows, NCols>>
        /\ \A i \in 1..NRows, j \in 1..NCols :
              /\ At(res.out.value, i, j)
                    = TripleSum(lib.U, lib.S, lib.Vt, i, j, KeptOutOfRange(res.args[1]))
              /\ res.args[1] > K => At(res.out.value, i, j) = matrix[i][j]
              /\ res.args[1] = 0 => At(res.out.value, i, j) = 0

\* C14 witness: rank = -1 on a matrix with two non-zero singular values keeps
\* the first one only.
C14_Witness ==
    /\ res.op = "low_rank_approximation"
    /\ res.args[1] = -1
    /\ K = 2
    /\ SV[2] > 0
    /\ ToList(res.out.value) # matrix
    /\ \E i \in 1..NRows, j \in 1..NCols : At(res.out.value, i, j) # 0

\* C14 witness: a rank above min(m, n) on a non-zero matrix.
C14_WitnessAbove ==
    /\ res.op = "low_rank_approximation"
    /\ res.args[1] > K
    /\ ~AllZero
    /\ ToList(res.out.value) = matrix

\* C14 witness: rank = 0 on a non-zero matrix.
C14_WitnessZero ==
    /\ res.op = "low_rank_approximation"
    /\ res.args[1] = 0
    /\ ~AllZero

----------------------------------------------------------------------------
(* Properties of device_info, checked under SpecDevice *)

\* C12 (as claimed): device_info reports the detection made when the module
\* was loaded: device_name equals _device, cuda_available is the text form of
\* that detection, and device_name is "cuda" exactly when cuda_available is
\* "True", otherwise "cpu".
C12_DeviceInfoReportsLoadTimeDevice ==
    ret.op = "device_info" =>
        /\ ret.out.status = "return"
        /\ ret.out.value.device_name = _device
        /\ ret.out.value.cuda_available = Str(_device = "cuda")
        /\ ret.out.value.device_name
              = (IF ret.out.value.cuda_available = "True" THEN "cuda" ELSE "cpu")


----------------------------------------------------------------------------
(* Properties of concurrent calls, checked under SpecConc *)

\* C13: train_regression_sample and predict_dict race on the unlocked handle.
\* Wherever the training thread is, a predict_dict call that reads the handle
\* while it holds an object gets that object and no state error, and its
\* forward pass uses the parameters the object has at that moment, however
\* few optimizer steps they have received.
C13_PredictRacesWithTraining ==
    [][/\ (threads.P.pc = "get" /\ threads'.P.pc # "get" /\ _model # None) =>
              /\ threads'.P.pc = "tensor"
              /\ threads'.P.model = _model.id
       /\ (threads.P.pc = "fwd" /\ threads'.P.pc = "ret") =>
              \A i \in 1..Len(threads'.P.pred.data) :
                  threads'.P.pred.data[i].params
                      = Parameters(ObjectOf(threads.P.model))]_vars

\* predict_dict has returned a prediction of the instance the running training
\* call installed, with fewer optimizer steps applied than that call was asked
\* for, and no training call has returned yet.
C13_Witness ==
    /\ ret.op = "predict_dict"
    /\ ret.out.status = "return"
    /\ ~trainedOk
    /\ threads.T.pc = "loop"
    /\ ret.out.value.result[1].params[1] = _model.id
    /\ ret.out.value.result[1].params[2] < threads.T.epochs

\* The same from the Trained state: an earlier training call has returned.
C13_WitnessTrained ==
    /\ ret.op = "predict_dict"
    /\ ret.out.status = "return"
    /\ trainedOk
    /\ threads.T.pc = "loop"
    /\ ret.out.value.result[1].params[1] = _model.id
    /\ ret.out.value.result[1].params[2] < threads.T.epochs

====
